---- MODULE Spec2Model ----
(***************************************************************************)
(* A model of kismap (src/kismap.py): the band classification get_band,    *)
(* the weight normalisation signal_to_weight, the filter pipeline of       *)
(* load_kismet_data and the control flow of main.                          *)
(*                                                                         *)
(* Python strings are sequences of one-character strings, so that the      *)
(* substring test ('AP' in type) and str.replace are computed, not         *)
(* assumed.  Python's None is the one-element sequence <<"None">>, which   *)
(* no character sequence equals.                                           *)
(*                                                                         *)
(* Python integers are unbounded; a frequency is kept as two limbs         *)
(* <<hi, lo>> of value hi * Limb + lo with 0 <= lo < Limb, which holds the *)
(* Hz encodings of the 5 and 6 GHz channels.                               *)
(***************************************************************************)
EXTENDS Integers, Sequences, FiniteSets, TLC

VARIABLES
    frequency,      \* get_band: the argument of the last call (two limbs)
    band,           \* get_band: the value the last call returned
    channel,        \* a WiFi channel centre frequency in MHz
    unit_bands,     \* get_band of that channel given in MHz, kHz and Hz
    signal_dbm,     \* signal_to_weight: the argument of the last call
    weight,         \* signal_to_weight: the value returned, <<num, den>>
    pc,             \* main: position in the function body
    args,           \* main: the argparse namespace
    folium_available, \* module level FOLIUM_AVAILABLE
    fs,             \* the file system: path -> kind of content
    db,             \* the rows of the Kismet database at args.input
    db_opened,      \* whether sqlite3.connect has been called
    packets,        \* main: the packets returned by load_kismet_data
    devices,        \* main: the devices returned by load_kismet_data
    heatmap,        \* main: the value returned by generate_heatmap
    csv_path,       \* main: the value returned by export_csv
    writes,         \* the files written so far, in order
    exit_status     \* <<>> while running, <<n>> after sys.exit(n)

band_vars == <<frequency, band, channel, unit_bands>>
weight_vars == <<signal_dbm, weight>>
main_vars == <<pc, args, folium_available, fs, db, db_opened, packets,
               devices, heatmap, csv_path, writes, exit_status>>
vars == <<band_vars, weight_vars, main_vars>>

----
\* Bounds

\* how far around each threshold of get_band the inputs are taken
Margin == 1
\* the signals given to signal_to_weight are -SignalSpan .. SignalSpan
SignalSpan == 130
\* the largest number of rows of the packets table
MaxPackets == 2

----
\* Python values

None == <<"None">>

\* bool(x) of a str, a list or None
Truthy(x) == x # None /\ x # <<>>

\* None where the other values are objects (a folium.Map)
NoneObj == [none |-> TRUE]

\* argparse's append action leaves None or a non-empty list; None is kept as
\* the empty list, which `if args.band` treats alike and nothing else reads
NoList == <<>>

\* x in xs, for a list xs
In(x, xs) == \E i \in 1..Len(xs) : xs[i] = x

\* sub in s, for strings
Contains(sub, s) ==
    \E i \in 1..(Len(s) - Len(sub) + 1) : SubSeq(s, i, i + Len(sub) - 1) = sub

\* s.replace(old, new): every non-overlapping occurrence, left to right
RECURSIVE replace(_, _, _)
replace(s, old, new) ==
    IF Len(s) < Len(old) THEN s
    ELSE IF SubSeq(s, 1, Len(old)) = old
         THEN new \o replace(SubSeq(s, Len(old) + 1, Len(s)), old, new)
         ELSE <<Head(s)>> \o replace(Tail(s), old, new)

\* string literals of the program
S_unknown == <<"u","n","k","n","o","w","n">>
S_2_4 == <<"2",".","4">>
S_5 == <<"5">>
S_6 == <<"6">>
S_AP == <<"A","P">>
S_html == <<".","h","t","m","l">>
S_csv == <<".","c","s","v">>

----
\* Unbounded integers in two limbs

Limb == 1000 * 1000

FromInt(n) == <<n \div Limb, n % Limb>>

\* b > n, for 0 <= n < Limb
BigGt(b, n) == b[1] > 0 \/ (b[1] = 0 /\ b[2] > n)

BigLe(a, b) == a[1] < b[1] \/ (a[1] = b[1] /\ a[2] <= b[2])

----
\* get_band

\* freq_mhz is kept exactly, as <<whole MHz, thousandths of a MHz>>
get_band_mut(f) ==
    IF ~BigGt(f, 0) THEN S_unknown
    ELSE LET freq_mhz ==
                 IF BigGt(f, 100000)
                 THEN <<f[1] * 1000 + (f[2] \div 1000), f[2] % 1000>>
                 ELSE IF BigGt(f, 100) THEN <<f[2], 0>>
                 ELSE <<f[2] * 1000, 0>>
             Ge(lo) == lo <= freq_mhz[1]
             Le(hi) == freq_mhz[1] < hi \/ (freq_mhz[1] = hi /\ freq_mhz[2] = 0)
         IN  IF Ge(2400) /\ Le(2500) THEN S_2_4
             ELSE IF Ge(5150) /\ Le(5925) THEN S_5
             ELSE IF Ge(5925) /\ Le(7125) THEN S_6
             ELSE S_unknown

get_band(f) ==
    IF ~BigGt(f, 0) THEN S_unknown
    ELSE LET freq_mhz ==
                 IF BigGt(f, 100000)
                 THEN <<f[1] * 1000 + (f[2] \div 1000), f[2] % 1000>>
                 ELSE IF BigGt(f, 100) THEN <<f[2], 0>>
                 ELSE <<f[2] * 1000, 0>>
             Ge(lo) == lo <= freq_mhz[1]
             Le(hi) == freq_mhz[1] < hi \/ (freq_mhz[1] = hi /\ freq_mhz[2] = 0)
         IN  IF Ge(2400) /\ Le(2500) THEN S_2_4
             ELSE IF Ge(5150) /\ Le(5895) THEN S_5
             ELSE IF Ge(5925) /\ Le(7125) THEN S_6
             ELSE S_unknown

----
\* signal_to_weight

min_signal == -95
max_signal == -30

\* rationals <<num, den>> with den > 0
RatLe(a, b) == a[1] * b[2] <= b[1] * a[2]
RatMin(a, b) == IF RatLe(b, a) THEN b ELSE a
RatMax(a, b) == IF RatLe(a, b) THEN b ELSE a

signal_to_weight_mut(s) ==
    LET normalized == <<s - min_signal, max_signal - min_signal>>
    IN  RatMin(<<1, 1>>, normalized)

signal_to_weight(s) ==
    LET normalized == <<s - min_signal, max_signal - min_signal>>
    IN  RatMax(<<1, 10>>, RatMin(<<1, 1>>, normalized))

----
\* The Kismet database

S_home == <<"h","o","m","e">>
S_cafe == <<"c","a","f","e">>
T_AP == <<"W","i","-","F","i"," ","A","P">>
T_Client == <<"W","i","-","F","i"," ","C","l","i","e","n","t">>
M1 == <<"m","1">>
M2 == <<"m","2">>
M3 == <<"m","3">>
M4 == <<"m","4">>
M5 == <<"m","5">>
M6 == <<"m","6">>

\* The device column is a JSON blob; it is kept by what json.loads and the
\* chain of .get calls make of it.
Blob(kind, ssid) == [kind |-> kind, ssid |-> ssid]

DeviceRows == <<
    [devmac |-> M1, type |-> T_AP, strongest_signal |-> -40,
     avg_lat |-> 1, avg_lon |-> 1, device |-> Blob("ssid", S_home)],
    [devmac |-> M2, type |-> T_Client, strongest_signal |-> -70,
     avg_lat |-> 1, avg_lon |-> 2, device |-> Blob("invalid", <<>>)],
    [devmac |-> M3, type |-> <<>>, strongest_signal |-> -60,
     avg_lat |-> 2, avg_lon |-> 1, device |-> Blob("ssid", S_cafe)],
    [devmac |-> M4, type |-> T_AP, strongest_signal |-> -50,
     avg_lat |-> 0, avg_lon |-> 1, device |-> Blob("ssid", S_home)],
    [devmac |-> M6, type |-> None, strongest_signal |-> -55,
     avg_lat |-> 2, avg_lon |-> 2, device |-> Blob("ssid", <<>>)] >>

PacketRow(ts, lat, lon, sig, freq, mac) ==
    [ts_sec |-> ts, lat |-> lat, lon |-> lon, signal |-> sig,
     frequency |-> freq, sourcemac |-> mac]

PacketRows == {
    PacketRow(1, 1, 1, -50, 2412000, M1),
    PacketRow(2, 1, 2, -80, 5180000, M2),
    PacketRow(3, 2, 1, -60, 5900000, M3),
    PacketRow(4, 2, 2, -40, 5955000, M5),
    PacketRow(5, 1, 1, 5, 2437000, M1),
    PacketRow(6, 1, 1, 0, 2412000, M1),
    PacketRow(7, 0, 1, -45, 5200000, M4),
    PacketRow(8, 2, 2, -90, 2462, M6) }

PacketTables == {t \in SUBSET PacketRows : Cardinality(t) <= MaxPackets}

----
\* load_kismet_data

\* the ssid that lines 94-105 leave in devices[mac]
extract_ssid(device) ==
    IF device.kind = "ssid" /\ device.ssid # <<>> THEN device.ssid ELSE None

\* lines 78-105: the devices dict; a later row of the same devmac replaces
\* an earlier one
RECURSIVE load_devices(_)
load_devices(rows) ==
    IF rows = <<>> THEN [m \in {} |-> None]
    ELSE LET row == rows[Len(rows)]
             rest == load_devices(SubSeq(rows, 1, Len(rows) - 1))
         IN  IF row.avg_lat # 0 /\ row.avg_lon # 0
             THEN (row.devmac :> [type |-> row.type,
                                  strongest_signal |-> row.strongest_signal,
                                  avg_lat |-> row.avg_lat,
                                  avg_lon |-> row.avg_lon,
                                  ssid |-> extract_ssid(row.device)]) @@ rest
             ELSE rest

\* ORDER BY ts_sec
RECURSIVE order_by_ts_sec(_)
order_by_ts_sec(rows) ==
    IF rows = {} THEN <<>>
    ELSE LET r == CHOOSE r \in rows : \A q \in rows : r.ts_sec <= q.ts_sec
         IN  <<r>> \o order_by_ts_sec(rows \ {r})

\* lines 108-113: the rows the packets query returns
select_packets(rows) ==
    order_by_ts_sec({r \in rows : r.lat # 0 /\ r.lon # 0 /\ r.signal # 0})

\* lines 117-134
make_packet(row, devs) ==
    [lat |-> row.lat, lon |-> row.lon, signal |-> row.signal,
     frequency |-> row.frequency, mac |-> row.sourcemac,
     timestamp |-> row.ts_sec, band |-> get_band(FromInt(row.frequency)),
     ssid |-> IF row.sourcemac \in DOMAIN devs
              THEN devs[row.sourcemac].ssid ELSE None,
     type |-> IF row.sourcemac \in DOMAIN devs
              THEN devs[row.sourcemac].type ELSE None]

\* lines 137-148: TRUE when no `continue` is taken
passes_filters_mut(p, a) ==
    /\ ~(Truthy(a.band) /\ ~In(p.band, a.band))
    /\ ~(a.min_signal # 0 /\ p.signal < a.min_signal)
    /\ ~(Truthy(a.type) /\ ~In(p.type, a.type))
    /\ ~(Truthy(a.mac) /\ ~In(p.mac, a.mac))
    /\ ~(~a.all_devices /\ Truthy(p.type) /\ ~Contains(S_AP, p.type))

passes_filters(p, a) ==
    /\ ~(Truthy(a.band) /\ ~In(p.band, a.band))
    /\ ~(a.min_signal # 0 /\ p.signal < a.min_signal)
    /\ ~(Truthy(a.type) /\ ~In(p.type, a.type))
    /\ ~(Truthy(a.essid) /\ ~In(p.ssid, a.essid))
    /\ ~(Truthy(a.mac) /\ ~In(p.mac, a.mac))
    /\ ~(~a.all_devices /\ Truthy(p.type) /\ ~Contains(S_AP, p.type))

RECURSIVE filter_packets(_, _, _)
filter_packets(rows, devs, a) ==
    IF rows = <<>> THEN <<>>
    ELSE LET p == make_packet(Head(rows), devs)
             rest == filter_packets(Tail(rows), devs, a)
         IN  IF passes_filters(p, a) THEN <<p>> \o rest ELSE rest

load_kismet_data(database, a) ==
    LET devs == load_devices(database.devices)
    IN  [packets |-> filter_packets(select_packets(database.packets), devs, a),
         devices |-> devs]

----
\* generate_heatmap

RECURSIVE heat_data(_, _)
heat_data(ps, b) ==
    IF ps = <<>> THEN <<>>
    ELSE IF Head(ps).band = b
         THEN <<[lat |-> Head(ps).lat, lon |-> Head(ps).lon,
                 weight |-> signal_to_weight(Head(ps).signal)]>>
              \o heat_data(Tail(ps), b)
         ELSE heat_data(Tail(ps), b)

generate_heatmap_mut(ps, devs, a) ==
    [layers |-> IF a.no_heatmap THEN [b \in {} |-> <<>>]
                ELSE [b \in {ps[i].band : i \in 1..Len(ps)} |-> heat_data(ps, b)],
     markers |-> {mac \in DOMAIN devs :
                     /\ ~(devs[mac].avg_lat = 0 \/ devs[mac].avg_lon = 0)
                     /\ ~(Truthy(devs[mac].type)
                          /\ ~Contains(S_AP, devs[mac].type))}]

generate_heatmap(ps, devs, a) ==
    IF ps = <<>> THEN NoneObj
    ELSE [layers |-> IF a.no_heatmap THEN [b \in {} |-> <<>>]
                     ELSE [b \in {ps[i].band : i \in 1..Len(ps)} |->
                              heat_data(ps, b)],
          markers |-> {mac \in DOMAIN devs :
                          /\ ~(devs[mac].avg_lat = 0 \/ devs[mac].avg_lon = 0)
                          /\ ~(Truthy(devs[mac].type)
                               /\ ~Contains(S_AP, devs[mac].type))}]

----
\* export_csv

\* line 251
csv_path_of(output_path) == replace(output_path, S_html, S_csv)

----
\* main

P_input == <<"w",".","k","i","s","m","e","t">>
P_out_html == <<"o","u","t",".","h","t","m","l">>
P_out == <<"o","u","t">>

BandArgs == {NoList, <<S_5>>, <<S_2_4, S_6>>}
TypeArgs == {NoList, <<T_AP>>}
EssidArgs == {NoList, <<S_home>>}
MacArgs == {NoList, <<M1, M5>>}
MinSignalArgs == {-100, -70, 0, 10}
OutputArgs == {P_out_html, P_out}

Args == [input : {P_input}, output : OutputArgs, essid : EssidArgs,
         mac : MacArgs, type : TypeArgs, band : BandArgs,
         min_signal : MinSignalArgs, all_devices : BOOLEAN,
         no_heatmap : BOOLEAN, export_csv : BOOLEAN]

Paths == {P_input} \cup OutputArgs \cup {csv_path_of(o) : o \in OutputArgs}

\* os.path.exists
exists(path) == fs[path] # "absent"

write(path, kind) ==
    /\ fs' = [fs EXCEPT ![path] = kind]
    /\ writes' = Append(writes, [path |-> path, kind |-> kind])

\* lines 287-290
CheckFolium ==
    /\ pc = "check_folium"
    /\ IF ~folium_available
       THEN /\ pc' = "exited"
            /\ exit_status' = <<1>>
       ELSE /\ pc' = "check_input"
            /\ UNCHANGED exit_status
    /\ UNCHANGED <<args, folium_available, fs, db, db_opened, packets,
                   devices, heatmap, csv_path, writes>>

\* lines 292-294
CheckInput_mut ==
    /\ pc = "check_input"
    /\ pc' = "load"
    /\ UNCHANGED <<exit_status, args, folium_available, fs, db, db_opened,
                   packets, devices, heatmap, csv_path, writes>>

CheckInput ==
    /\ pc = "check_input"
    /\ IF ~exists(args.input)
       THEN /\ pc' = "exited"
            /\ exit_status' = <<1>>
       ELSE /\ pc' = "load"
            /\ UNCHANGED exit_status
    /\ UNCHANGED <<args, folium_available, fs, db, db_opened, packets,
                   devices, heatmap, csv_path, writes>>

\* lines 296-297
Load ==
    /\ pc = "load"
    /\ db_opened' = TRUE
    /\ LET r == load_kismet_data(db, args)
       IN  /\ packets' = r.packets
           /\ devices' = r.devices
    /\ pc' = "generate"
    /\ UNCHANGED <<args, folium_available, fs, db, heatmap, csv_path, writes,
                   exit_status>>

\* lines 324-325
Generate ==
    /\ pc = "generate"
    /\ heatmap' = generate_heatmap(packets, devices, args)
    /\ pc' = "save"
    /\ UNCHANGED <<args, folium_available, fs, db, db_opened, packets,
                   devices, csv_path, writes, exit_status>>

\* lines 327-329
Save ==
    /\ pc = "save"
    /\ IF heatmap # NoneObj
       THEN /\ write(args.output, "html")
            /\ pc' = IF args.export_csv THEN "export" ELSE "return"
       ELSE /\ pc' = "return"
            /\ UNCHANGED <<fs, writes>>
    /\ UNCHANGED <<args, folium_available, db, db_opened, packets, devices,
                   heatmap, csv_path, exit_status>>

\* lines 331-333 and export_csv
Export ==
    /\ pc = "export"
    /\ csv_path' = csv_path_of(args.output)
    /\ write(csv_path_of(args.output), "csv")
    /\ pc' = "return"
    /\ UNCHANGED <<args, folium_available, db, db_opened, packets, devices,
                   heatmap, exit_status>>

\* lines 337 and 340
Return ==
    /\ pc = "return"
    /\ exit_status' = <<0>>
    /\ pc' = "done"
    /\ UNCHANGED <<args, folium_available, fs, db, db_opened, packets,
                   devices, heatmap, csv_path, writes>>

BandIdle ==
    /\ frequency = FromInt(0)
    /\ band = None
    /\ channel = 0
    /\ unit_bands = None

WeightIdle ==
    /\ signal_dbm = 0
    /\ weight = None

MainIdle ==
    /\ pc = "idle"
    /\ args = [a \in {} |-> None]
    /\ folium_available = TRUE
    /\ fs = [p \in Paths |-> "absent"]
    /\ db = [devices |-> <<>>, packets |-> {}]
    /\ db_opened = FALSE
    /\ packets = <<>>
    /\ devices = [m \in {} |-> None]
    /\ heatmap = NoneObj
    /\ csv_path = None
    /\ writes = <<>>
    /\ exit_status = <<>>

\* the state when main has parsed its arguments (line 285)
Init ==
    /\ BandIdle
    /\ WeightIdle
    /\ pc = "check_folium"
    /\ args \in Args
    /\ folium_available \in BOOLEAN
    /\ \E present \in BOOLEAN :
          /\ fs = [p \in Paths |->
                      IF p = P_input /\ present THEN "kismet" ELSE "absent"]
          /\ db \in IF present
                    THEN [devices : {DeviceRows}, packets : PacketTables]
                    ELSE {[devices |-> <<>>, packets |-> {}]}
    /\ db_opened = FALSE
    /\ packets = <<>>
    /\ devices = [m \in {} |-> None]
    /\ heatmap = NoneObj
    /\ csv_path = None
    /\ writes = <<>>
    /\ exit_status = <<>>

Next ==
    \/ CheckFolium /\ UNCHANGED <<band_vars, weight_vars>>
    \/ CheckInput /\ UNCHANGED <<band_vars, weight_vars>>
    \/ Load /\ UNCHANGED <<band_vars, weight_vars>>
    \/ Generate /\ UNCHANGED <<band_vars, weight_vars>>
    \/ Save /\ UNCHANGED <<band_vars, weight_vars>>
    \/ Export /\ UNCHANGED <<band_vars, weight_vars>>
    \/ Return /\ UNCHANGED <<band_vars, weight_vars>>

Spec == Init /\ [][Next]_vars

----
\* get_band on its own: the inputs are drawn in Init, the calls are the steps

Thresholds == {100, 2400, 2500, 5150, 5895, 5925, 7125}

Near(n) == {n + d : d \in (-Margin)..Margin}

\* n * Limb + d, the Hz encoding of n MHz moved by d Hz
HzNear(n) == {IF d >= 0 THEN <<n, d>> ELSE <<n - 1, Limb + d>> :
                 d \in (-Margin)..Margin}

FreqInputs ==
    {FromInt(n) : n \in ((-Margin)..(8 + Margin)) \cup Near(100000)
                        \cup UNION {Near(t) : t \in Thresholds}
                        \cup UNION {Near(t * 1000) : t \in Thresholds}}
    \cup UNION {HzNear(t) : t \in Thresholds}

\* centre frequencies in MHz of the 20 MHz channels of the three bands
Channels ==
    {2412 + 5 * k : k \in 0..12} \cup {2484}
    \cup {5180 + 20 * k : k \in 0..7} \cup {5500 + 20 * k : k \in 0..11}
    \cup {5745 + 20 * k : k \in 0..7}
    \cup {5955 + 20 * k : k \in 0..58}

InitBand ==
    /\ frequency \in FreqInputs
    /\ band = None
    /\ channel \in Channels
    /\ unit_bands = None
    /\ WeightIdle
    /\ MainIdle

CallGetBand ==
    /\ band = None
    /\ band' = get_band(frequency)
    /\ UNCHANGED <<frequency, channel, unit_bands, weight_vars, main_vars>>

\* the channel given in MHz, in kHz and in Hz
CallGetBandUnits ==
    /\ unit_bands = None
    /\ unit_bands' = <<get_band(FromInt(channel)),
                       get_band(FromInt(channel * 1000)),
                       get_band(<<channel, 0>>)>>
    /\ UNCHANGED <<frequency, band, channel, weight_vars, main_vars>>

NextBand == CallGetBand \/ CallGetBandUnits

SpecBand == InitBand /\ [][NextBand]_vars

----
\* signal_to_weight on its own

InitWeight ==
    /\ signal_dbm \in (-SignalSpan)..SignalSpan
    /\ weight = None
    /\ BandIdle
    /\ MainIdle

CallSignalToWeight ==
    /\ weight = None
    /\ weight' = signal_to_weight(signal_dbm)
    /\ UNCHANGED <<signal_dbm, band_vars, main_vars>>

NextWeight == CallSignalToWeight

SpecWeight == InitWeight /\ [][NextWeight]_vars

----
\* Properties

\* C1: for every WiFi channel centre frequency, get_band returns the same
\* band label for the MHz, the kHz and the Hz encoding of it.
C1_same_band_in_all_units ==
    unit_bands # None =>
        /\ unit_bands[1] = unit_bands[2]
        /\ unit_bands[2] = unit_bands[3]

\* C2: for every integer signal, below -95, above -30 and positive ones
\* included, the weight signal_to_weight returns lies in 0 .. 1.
C2_weight_in_unit_interval ==
    weight # None => RatLe(<<0, 1>>, weight) /\ RatLe(weight, <<1, 1>>)

C2_witness ==
    /\ weight # None
    /\ signal_dbm < min_signal
    /\ weight = <<1, 10>>

\* C3: every packet load_kismet_data returns has its band, type, ssid and
\* mac in the list of each of the filters band, type, essid and mac that is
\* supplied; so no packet of an unknown device (ssid None, type None) or of
\* band 'unknown' is returned under the essid, type or band filter.
C3_list_filters ==
    \A i \in 1..Len(packets) :
        LET p == packets[i]
        IN  /\ Truthy(args.band) =>
                 In(p.band, args.band) /\ p.band # S_unknown
            /\ Truthy(args.type) =>
                 In(p.type, args.type) /\ p.type # None
            /\ Truthy(args.essid) =>
                 In(p.ssid, args.essid) /\ p.ssid # None
            /\ Truthy(args.mac) => In(p.mac, args.mac)

C3_witness ==
    /\ db_opened
    /\ Truthy(args.band) /\ Truthy(args.type)
    /\ Truthy(args.essid) /\ Truthy(args.mac)
    /\ Len(packets) = 1
    /\ Cardinality(db.packets) = 2
    /\ \E r \in db.packets : r.signal # 0 /\ r.sourcemac = M5

\* C4: for every integer --min-signal, 0 and positive values included,
\* every packet load_kismet_data returns has signal >= args.min_signal.
C4_min_signal ==
    \A i \in 1..Len(packets) : packets[i].signal >= args.min_signal

\* C5: without --all-devices every packet load_kismet_data returns comes
\* from a device of the loaded devices table whose type contains 'AP'.
C5_only_access_points ==
    ~args.all_devices =>
        \A i \in 1..Len(packets) :
            /\ packets[i].mac \in DOMAIN devices
            /\ Truthy(packets[i].type)
            /\ Contains(S_AP, packets[i].type)

\* C6: when folium is unavailable or the input path does not exist, main
\* exits with status 1 and never opens the database, generates a map or
\* writes an HTML or CSV file.
C6_checks_before_work ==
    (~folium_available \/ ~exists(args.input)) =>
        /\ pc \in {"check_folium", "check_input", "exited"}
        /\ exit_status = IF pc = "exited" THEN <<1>> ELSE <<>>
        /\ ~db_opened
        /\ heatmap = NoneObj
        /\ writes = <<>>
        /\ \A p \in Paths : fs[p] \notin {"html", "csv"}

C6_witness ==
    /\ pc = "exited"
    /\ exit_status = <<1>>
    /\ folium_available
    /\ ~exists(args.input)

\* C7: when no packet passes the filters generate_heatmap returns None,
\* main writes no file, --export-csv or not, and still exits with status 0;
\* a CSV is written only after the HTML was saved, only with --export-csv
\* and only for a non-empty packet list.
C7_nothing_written_without_packets ==
    /\ (pc \in {"save", "export", "return", "done"} /\ packets = <<>>) =>
           /\ heatmap = NoneObj
           /\ writes = <<>>
           /\ pc # "export"
    /\ pc = "done" => exit_status = <<0>>
    /\ \A i \in 1..Len(writes) :
           writes[i].kind = "csv" =>
               /\ args.export_csv
               /\ packets # <<>>
               /\ \E j \in 1..(i - 1) :
                      writes[j] = [path |-> args.output, kind |-> "html"]

C7_witness ==
    /\ pc = "done"
    /\ exit_status = <<0>>
    /\ args.export_csv
    /\ db.packets # {}
    /\ packets = <<>>
    /\ writes = <<>>

\* C8: get_band returns 'unknown' for frequency <= 0; otherwise, with
\* m = frequency / 1000 above 100000, m = frequency above 100 and
\* m = frequency * 1000 up to 100, it returns '2.4' iff 2400 <= m <= 2500,
\* '5' iff 5150 <= m <= 5895, '6' iff 5925 <= m <= 7125 and 'unknown' for
\* every other m.
C8_m_within(f, lo, hi) ==
    IF BigGt(f, 100000)
    THEN BigLe(FromInt(lo * 1000), f) /\ BigLe(f, FromInt(hi * 1000))
    ELSE IF BigGt(f, 100) THEN lo <= f[2] /\ f[2] <= hi
    ELSE lo <= f[2] * 1000 /\ f[2] * 1000 <= hi

C9_csv_keeps_heatmap ==
    csv_path # None =>
        /\ csv_path # args.output
        /\ fs[args.output] = "html"

====
